---- MODULE Spec2Model ----
(***************************************************************************)
(* Model of streamlit_app.py: a Streamlit script that, once an API key and *)
(* a data file are present and "Generate Report" is pressed, sends five    *)
(* prompts one after the other to a remote text generator and assembles    *)
(* the five results into a report.                                         *)
(*                                                                         *)
(* One script run is a straight line of code; the model cuts it where the  *)
(* environment decides something: the user's interaction that starts the   *)
(* run, the parse of the uploaded file, and the answer to each HTTP POST.  *)
(* Python strings are TLA+ strings; a Python value that may be a string or *)
(* None is a record [kind, text].                                          *)
(***************************************************************************)
EXTENDS Integers, Sequences, FiniteSets, TLC

(***************************************************************************)
(* Bounds of the model.                                                    *)
(***************************************************************************)
\* how many of the sample generated texts the remote service may answer with
MaxTexts == 1
\* how many of the sample error responses the remote service may answer with
MaxErrors == 1

(***************************************************************************)
(* Python values                                                           *)
(***************************************************************************)
Str(s) == [kind |-> "str", text |-> s]
None == [kind |-> "None", text |-> ""]
\* a local variable that has not been assigned yet in this run
Unbound == [kind |-> "unbound", text |-> ""]
\* the outcome of an expression that raised
Raised(e) == [kind |-> "raised", text |-> e]

\* f"{v}" : str() of the value
Format_noplaceholder(v) == IF v.kind = "None" THEN "" ELSE v.text
Format(v) == IF v.kind = "None" THEN "None" ELSE v.text

\* a + b on a str left operand: TypeError unless b is a str too
StrAdd_lenient(a, b) ==
    IF a.kind = "raised" THEN a
    ELSE Str(a.text \o (IF b.kind = "None" THEN "" ELSE b.text))
StrAdd(a, b) ==
    IF a.kind = "raised" THEN a
    ELSE IF b.kind # "str" THEN Raised("TypeError")
    ELSE Str(a.text \o b.text)

\* s.split(c) for a one-character separator c: the pieces between the
\* occurrences of c, in order
Split(s, c) ==
    LET at == {i \in 1..Len(s) : SubSeq(s, i, i) = c}
        n == Cardinality(at)
        pos(k) == CHOOSE i \in at : Cardinality({j \in at : j < i}) = k - 1
        first(k) == IF k = 1 THEN 1 ELSE pos(k - 1) + 1
        last(k) == IF k = n + 1 THEN Len(s) ELSE pos(k) - 1
    IN [k \in 1..(n + 1) |-> SubSeq(s, first(k), last(k))]

\* sep.join(parts)
Join(parts, sep) ==
    LET RECURSIVE go(_, _)
        go(i, acc) ==
            IF i > Len(parts) THEN acc
            ELSE go(i + 1, IF i = 1 THEN parts[i] ELSE acc \o sep \o parts[i])
    IN go(1, "")

\* t in s
Contains(s, t) ==
    \E i \in 1..(Len(s) - Len(t) + 1) : SubSeq(s, i, i + Len(t) - 1) = t

\* str(n) for the one-digit step numbers
IntToStr(n) == SubSeq("0123456789", n + 1, n + 1)

(***************************************************************************)
(* The table (pandas DataFrame), cells already rendered as text            *)
(***************************************************************************)
\* df.head(n)
head(df, n) ==
    [df EXCEPT !.rows = SubSeq(df.rows, 1, IF Len(df.rows) < n THEN Len(df.rows) ELSE n)]

\* df.to_csv(index=False)
to_csv(df) ==
    LET RECURSIVE body(_, _)
        body(i, acc) ==
            IF i > Len(df.rows) THEN acc
            ELSE body(i + 1, acc \o Join(df.rows[i], ",") \o "\n")
    IN body(1, Join(df.columns, ",") \o "\n")

Table1 == [columns |-> <<"a", "b">>,
           rows |-> <<<<"1", "2">>, <<"3", "4">>, <<"5", "6">>>>]
Table2 == [columns |-> <<"region">>, rows |-> <<<<"north">>>>]
NoTable == [columns |-> <<>>, rows |-> <<>>]

(***************************************************************************)
(* Inputs of the user                                                      *)
(***************************************************************************)
\* values of the password field; "" is the widget's default
Keys == {"", "sk-1"}

\* st.file_uploader returns None until a file is uploaded
NoFile == [name |-> "", format |-> "none", table |-> NoTable]
\* uploaded files: the name, what the bytes really are, and the table in them
Files == {[name |-> "sales.csv", format |-> "csv", table |-> Table1],
          [name |-> "q3.report.xlsx", format |-> "xlsx", table |-> Table2],
          [name |-> "broken.csv", format |-> "corrupt", table |-> NoTable],
          [name |-> "broken.xlsx", format |-> "corrupt", table |-> NoTable]}

\* lines 60-64: pick the reader by the file name's last dot-part; the reader
\* raises on bytes that are not in its format
ReadFile_tolerant(f) == [ok |-> TRUE, df |-> f.table]
ReadFile(f) ==
    LET parts == Split(f.name, ".")
        file_ext == parts[Len(parts)]
    IN IF file_ext = "csv"
       THEN [ok |-> f.format = "csv", df |-> f.table]
       ELSE [ok |-> f.format = "xlsx", df |-> f.table]

(***************************************************************************)
(* Answers of the remote text generator                                    *)
(***************************************************************************)
SampleTexts == <<"Alpha", "", "Echo">>
Texts == {SampleTexts[i] : i \in 1..(IF MaxTexts < Len(SampleTexts) THEN MaxTexts ELSE Len(SampleTexts))}

SampleErrors == <<[status_code |-> 401, text |-> "API key not valid"],
                  [status_code |-> 500, text |-> ""],
                  [status_code |-> 429, text |-> "quota"]>>
Errors == {SampleErrors[i] : i \in 1..(IF MaxErrors < Len(SampleErrors) THEN MaxErrors ELSE Len(SampleErrors))}

\* a response: status code, raw body (kept for errors only), and the decoded
\* payload as the list of candidates, each the list of its parts' texts
Responses ==
    \* 200, one candidate with one part
    {[status_code |-> 200, text |-> "", candidates |-> <<<<t>>>>] : t \in Texts}
    \* 200, two candidates, the first with two parts
    \cup {[status_code |-> 200, text |-> "",
           candidates |-> <<<<"Bravo\nB2", "Charlie">>, <<"Delta">>>>]}
    \* 200 without any candidate, and 200 with a candidate without parts
    \cup {[status_code |-> 200, text |-> "", candidates |-> <<>>],
          [status_code |-> 200, text |-> "", candidates |-> <<<<>>>>]}
    \* any other status
    \cup {[status_code |-> e.status_code, text |-> e.text, candidates |-> <<>>] : e \in Errors}

url == "https://generativelanguage.googleapis.com/v1beta/models/gemini-pro:generateContent"

\* lines 12-21: the request call_gemini_api posts
Request(api_key, prompt) ==
    [url |-> url, authorization |-> "Bearer " \o api_key, prompt |-> prompt]

\* lines 22-28: what call_gemini_api returns for a response; indexing a payload
\* that lacks candidates[0].content.parts[0].text raises KeyError or IndexError
call_gemini_api_last(r) ==
    IF r.status_code = 200
    THEN IF r.candidates = <<>> THEN Raised("LookupError")
         ELSE IF r.candidates[Len(r.candidates)] = <<>> THEN Raised("LookupError")
         ELSE Str(r.candidates[Len(r.candidates)][Len(r.candidates[Len(r.candidates)])])
    ELSE None
call_gemini_api(r) ==
    IF r.status_code = 200
    THEN IF r.candidates = <<>> THEN Raised("LookupError")
         ELSE IF r.candidates[1] = <<>> THEN Raised("LookupError")
         ELSE Str(r.candidates[1][1])
    ELSE None

\* line 27: the error call_gemini_api shows for a non-200 response
ApiError(r) == "Gemini API Error: " \o r.text

(***************************************************************************)
(* The five stages                                                         *)
(***************************************************************************)
Stages == 1..5
total_steps == 6

ResultVar == <<"profile_result", "cleaning_result", "metrics_result",
               "analysis_result", "insights_result">>

StepName == <<"Profiling Data...", "Data Cleaning...",
              "Calculating Metrics and Engineering Features...",
              "Finding Hidden Patterns & Analysis...",
              "Generating Insights & Recommendations...",
              "Generating PDF Report...">>

Heading == <<"**Profile Result:**", "**Cleaning Steps:**",
             "**Key Metrics & Features:**", "**Hidden Patterns:**",
             "**Actionable Insights:**">>

SectionLabel == <<"DATA PROFILE:\n", "DATA CLEANING STEPS:\n",
                  "KEY METRICS & FEATURES:\n", "HIDDEN PATTERNS & ANALYSIS:\n",
                  "ACTIONABLE INSIGHTS & RECOMMENDATIONS:\n">>

\* lines 31-32
progress_step(step_num, step_name, total) ==
    "Step " \o IntToStr(step_num) \o "/" \o IntToStr(total) \o ": " \o step_name

\* line 72
profile_prompt(df) ==
    "You are an expert data analyst. Here are the top 2 rows:\n"
    \o to_csv(head(df, 2))
    \o "\n\nColumn names: " \o Join(df.columns, ", ")
    \o "\n\nProfile this data and guess the domain/use-case. Return the profile, types, missing values, and business context."

\* line 81
cleaning_prompt(profile_result) ==
    "Given this data profile:\n" \o Format(profile_result)
    \o "\nSuggest cleaning steps and apply them. Return python code for cleaning and a summary of changes."

\* line 90
metrics_prompt ==
    "Based on the cleaned data and profile, identify the most important KPIs and metrics to track. Suggest feature engineering if any. Output metric definitions and a sample calculation."

\* line 99
analysis_prompt_of_cleaning(res) ==
    "Given the data and metrics:\n" \o Format(res.cleaning_result)
    \o "\nPerform exploratory data analysis and highlight hidden patterns, outliers, or unusual trends."
analysis_prompt(res) ==
    "Given the data and metrics:\n" \o Format(res.metrics_result)
    \o "\nPerform exploratory data analysis and highlight hidden patterns, outliers, or unusual trends."

\* line 108
insights_prompt ==
    "Summarize actionable business insights and recommendations from the previous analysis. Focus on recent performance, possible optimizations, and next steps."

\* the prompt stage k sends, given the table and the results so far
Prompt(k, df, res) ==
    CASE k = 1 -> profile_prompt(df)
      [] k = 2 -> cleaning_prompt(res.profile_result)
      [] k = 3 -> metrics_prompt
      [] k = 4 -> analysis_prompt(res)
      [] k = 5 -> insights_prompt

\* lines 117-123
full_report_of(res) ==
    LET RECURSIVE go(_, _)
        go(k, acc) ==
            IF k > 5 THEN acc
            ELSE go(k + 1, StrAdd(StrAdd(StrAdd(acc, Str(SectionLabel[k])),
                                         res[ResultVar[k]]), Str("\n\n")))
    IN go(1, Str(""))

\* lines 35-44: one cell per line of the report
create_pdf(report_text) == Split(report_text, "\n")

(***************************************************************************)
(* State                                                                   *)
(***************************************************************************)
VARIABLES
    api_key,        \* value of the password field (kept by the session)
    uploaded_file,  \* value of the file uploader (kept by the session), or NoFile
    clicked,        \* whether this run was started by pressing "Generate Report"
    pc,             \* where the script run is
    step,           \* the script's step counter
    df,             \* the loaded table
    results,        \* the five *_result locals of this run
    full_report,    \* the assembled report of this run
    pdf_buffer,     \* the exported document of this run: its cells
    ui,             \* the elements this run has put on the page, in order
    posts,          \* the HTTP POSTs this run has issued, in order
    responses,      \* the responses this run's POSTs have received, in order
    pending,        \* the number of POSTs issued and not yet answered
    exception       \* the uncaught exception that ended the run, or ""

vars == <<api_key, uploaded_file, clicked, pc, step, df, results, full_report,
          pdf_buffer, ui, posts, responses, pending, exception>>

\* a page element: which st.* call made it, and the value it shows
El(kind, v) == [el |-> kind, value |-> v]

NoResults == [n \in {ResultVar[k] : k \in Stages} |-> Unbound]

\* the state of a run before its first line
FreshRun ==
    /\ pc' = "gate"
    /\ step' = 0
    /\ df' = NoTable
    /\ results' = NoResults
    /\ full_report' = Unbound
    /\ pdf_buffer' = <<>>
    /\ ui' = <<>>
    /\ posts' = <<>>
    /\ responses' = <<>>
    /\ pending' = 0
    /\ exception' = ""

\* the first run of a session: both widgets at their defaults
Init ==
    /\ api_key = ""
    /\ uploaded_file = NoFile
    /\ clicked = FALSE
    /\ pc = "gate"
    /\ step = 0
    /\ df = NoTable
    /\ results = NoResults
    /\ full_report = Unbound
    /\ pdf_buffer = <<>>
    /\ ui = <<>>
    /\ posts = <<>>
    /\ responses = <<>>
    /\ pending = 0
    /\ exception = ""

\* the script is not running: its last run ended normally or by an exception
Idle == pc \in {"idle", "crashed"}

\* the last run rendered the "Generate Report" button
ButtonShown == \E i \in 1..Len(ui) : ui[i].el = "button"

(***************************************************************************)
(* User interactions; each reruns the script from its top                  *)
(***************************************************************************)
\* line 52: the user changes the API key field
EnterKey(k) ==
    /\ Idle
    /\ k # api_key
    /\ api_key' = k
    /\ clicked' = FALSE
    /\ UNCHANGED uploaded_file
    /\ FreshRun

\* line 53: the user uploads, replaces or removes the file
UploadFile(f) ==
    /\ Idle
    /\ f # uploaded_file
    /\ uploaded_file' = f
    /\ clicked' = FALSE
    /\ UNCHANGED api_key
    /\ FreshRun

\* line 58: the user presses the button the last run rendered
ClickGenerate ==
    /\ Idle
    /\ ButtonShown
    /\ clicked' = TRUE
    /\ UNCHANGED <<api_key, uploaded_file>>
    /\ FreshRun

(***************************************************************************)
(* The script                                                              *)
(***************************************************************************)
\* line 55: both inputs are truthy
GateOpen_either(key, file) == key # "" \/ file # NoFile
GateOpen(key, file) == key # "" /\ file # NoFile

\* lines 46-58 and 136-137: title, intro, the two widgets and the gate
Gate ==
    /\ pc = "gate"
    /\ LET top == <<El("title", Str("AI-Powered Data Insights (Gemini + Streamlit)")),
                    El("write", Str("Upload your Gemini API key and a dataset (CSV or Excel). The app will analyze, clean, and extract actionable insights automatically."))>>
       IN IF GateOpen(api_key, uploaded_file)
          THEN /\ ui' = ui \o top
                        \o <<El("success", Str("API key and data file received!")),
                             El("button", Str("Generate Report"))>>
               /\ pc' = IF clicked THEN "load" ELSE "footer"
          ELSE /\ ui' = ui \o top
                        \o <<El("warning", Str("Please enter your Gemini API key and upload a dataset to proceed."))>>
               /\ pc' = "footer"
    /\ UNCHANGED <<api_key, uploaded_file, clicked, step, df, results, full_report,
                   pdf_buffer, posts, responses, pending, exception>>

\* lines 60-67: read the file into a table; a reader's exception is not caught
LoadFile ==
    /\ pc = "load"
    /\ LET r == ReadFile(uploaded_file)
       IN IF r.ok
          THEN /\ df' = r.df
               /\ step' = 1
               /\ pc' = "stage"
               /\ UNCHANGED exception
          ELSE /\ pc' = "crashed"
               /\ exception' = "ParserError"
               /\ UNCHANGED <<df, step>>
    /\ UNCHANGED <<api_key, uploaded_file, clicked, results, full_report,
                   pdf_buffer, ui, posts, responses, pending>>

\* where the script goes once the POST is out: call_gemini_api blocks in
\* requests.post until the response is there
AfterPost_nowait(s) == [pc |-> IF s < 5 THEN "stage" ELSE "assemble", step |-> s + 1]
AfterPost(s) == [pc |-> "await", step |-> s]

\* lines 70-73, 80-82, 89-91, 98-100, 107-109: the progress message, (stage 1:
\* the preview of the table,) the prompt, and the POST of call_gemini_api
SendPrompt ==
    /\ pc = "stage"
    /\ step \in Stages
    /\ ui' = ui \o <<El("info", Str(progress_step(step, StepName[step], total_steps)))>>
                \o (IF step = 1 THEN <<El("dataframe", Str(to_csv(head(df, 10))))>> ELSE <<>>)
    /\ posts' = Append(posts, Request(api_key, Prompt(step, df, results)))
    /\ pending' = pending + 1
    /\ pc' = AfterPost(step).pc
    /\ step' = AfterPost(step).step
    /\ UNCHANGED <<api_key, uploaded_file, clicked, df, results, full_report,
                   pdf_buffer, responses, exception>>

\* line 21: requests.post raises (no connection, ...); nothing catches it
PostRaises ==
    /\ pc = "await"
    /\ pending' = pending - 1
    /\ pc' = "crashed"
    /\ exception' = "ConnectionError"
    /\ UNCHANGED <<api_key, uploaded_file, clicked, step, df, results, full_report,
                   pdf_buffer, ui, posts, responses>>

\* lines 76-80, 85-89, ...: after a stage's call returned ret, the script moves
\* on to the next block
NextBlock_retry(s, ret) ==
    IF ret.kind = "None" THEN [pc |-> "stage", step |-> s]
    ELSE [pc |-> IF s < 5 THEN "stage" ELSE "assemble", step |-> s + 1]
NextBlock_abort(s, ret) ==
    IF ret.kind = "None" THEN [pc |-> "footer", step |-> s + 1]
    ELSE [pc |-> IF s < 5 THEN "stage" ELSE "assemble", step |-> s + 1]
NextBlock(s, ret) == [pc |-> IF s < 5 THEN "stage" ELSE "assemble", step |-> s + 1]

\* lines 21-28 and 73-77, 82-86, ...: the response r arrives; call_gemini_api
\* returns its text or shows the error and returns None; the stage shows its
\* heading and the result and the step counter advances
Receive(r) ==
    /\ pc = "await"
    /\ pending' = pending - 1
    /\ responses' = Append(responses, r)
    /\ LET ret == call_gemini_api(r)
       IN IF ret.kind = "raised"
          THEN /\ pc' = "crashed"
               /\ exception' = ret.text
               /\ UNCHANGED <<results, ui, step>>
          ELSE /\ results' = [results EXCEPT ![ResultVar[step]] = ret]
               /\ ui' = ui \o (IF r.status_code = 200 THEN <<>>
                               ELSE <<El("error", Str(ApiError(r)))>>)
                           \o <<El("markdown", Str(Heading[step])), El("write", ret)>>
               /\ pc' = NextBlock(step, ret).pc
               /\ step' = NextBlock(step, ret).step
               /\ UNCHANGED exception
    /\ UNCHANGED <<api_key, uploaded_file, clicked, df, full_report, pdf_buffer, posts>>

\* lines 116-123: the progress message and the concatenation of the report;
\* str + None raises TypeError, which nothing catches
Assemble ==
    /\ pc = "assemble"
    /\ ui' = ui \o <<El("info", Str(progress_step(step, StepName[step], total_steps)))>>
    /\ LET rep == full_report_of(results)
       IN IF rep.kind = "raised"
          THEN /\ pc' = "crashed"
               /\ exception' = rep.text
               /\ UNCHANGED full_report
          ELSE /\ full_report' = rep
               /\ pc' = "export"
               /\ UNCHANGED exception
    /\ UNCHANGED <<api_key, uploaded_file, clicked, step, df, results, pdf_buffer,
                   posts, responses, pending>>

\* lines 124-135: the document, the download button and the report panel
Export ==
    /\ pc = "export"
    /\ pdf_buffer' = create_pdf(full_report.text)
    /\ ui' = ui \o <<El("success", Str("Analysis Complete! Download your report below:")),
                     El("download_button", Str("data_analysis_report.pdf")),
                     El("expander", Str("Full Report")),
                     El("text", full_report)>>
    /\ pc' = "footer"
    /\ UNCHANGED <<api_key, uploaded_file, clicked, step, df, results, full_report,
                   posts, responses, pending, exception>>

\* lines 139-140: the rule and the caption end the run
Footer ==
    /\ pc = "footer"
    /\ ui' = ui \o <<El("markdown", Str("---")),
                     El("caption", Str("Created with love using Streamlit and Google Gemini"))>>
    /\ pc' = "idle"
    /\ UNCHANGED <<api_key, uploaded_file, clicked, step, df, results, full_report,
                   pdf_buffer, posts, responses, pending, exception>>

Next ==
    \/ \E k \in Keys : EnterKey(k)
    \/ \E f \in Files \cup {NoFile} : UploadFile(f)
    \/ ClickGenerate
    \/ Gate
    \/ LoadFile
    \/ SendPrompt
    \/ PostRaises
    \/ \E r \in Responses : Receive(r)
    \/ Assemble
    \/ Export
    \/ Footer

Spec == Init /\ [][Next]_vars

TypeOK ==
    /\ api_key \in Keys
    /\ uploaded_file \in Files \cup {NoFile}
    /\ clicked \in BOOLEAN
    /\ pc \in {"gate", "load", "stage", "await", "assemble", "export", "footer",
               "idle", "crashed"}
    /\ step \in 0..6
    /\ pending \in 0..1

(***************************************************************************)
(* Vocabulary of the properties                                            *)
(***************************************************************************)
\* the run is over: it reached the end of the script or died of an exception
RunOver == pc \in {"idle", "crashed"}

\* stage k's call has returned a value (text or None) in this run
Returned(k) == results[ResultVar[k]].kind \in {"str", "None"}

\* stage k's call was answered with a non-200 status in this run
Failed(k) == k <= Len(responses) /\ responses[k].status_code # 200

\* the positions in posts of the calls that carry stage k's prompt
CallsOf(k) == {i \in 1..Len(posts) : posts[i].prompt = Prompt(k, df, results)}

\* the positions in ui of the progress message that opens stage k
EntriesOf(k) ==
    {i \in 1..Len(ui) : ui[i] = El("info", Str(progress_step(k, StepName[k], 6)))}

Shown(kind) == \E i \in 1..Len(ui) : ui[i].el = kind

\* the report the specification describes: every label followed by the stage's
\* result, or by nothing when the stage failed
ReportWithEmptyForFailed ==
    LET txt(k) == IF results[ResultVar[k]].kind = "str"
                  THEN results[ResultVar[k]].text ELSE ""
    IN "DATA PROFILE:\n" \o txt(1) \o "\n\n"
       \o "DATA CLEANING STEPS:\n" \o txt(2) \o "\n\n"
       \o "KEY METRICS & FEATURES:\n" \o txt(3) \o "\n\n"
       \o "HIDDEN PATTERNS & ANALYSIS:\n" \o txt(4) \o "\n\n"
       \o "ACTIONABLE INSIGHTS & RECOMMENDATIONS:\n" \o txt(5) \o "\n\n"

(***************************************************************************)
(* C1: whichever of the five stage calls succeeded or failed, once all     *)
(* five have returned and the assembly step has run, the report is the     *)
(* five section labels in order, each followed by the stage's result, or   *)
(* by the empty string when the stage failed.                              *)
(***************************************************************************)
C1_ReportAssembledWhateverFailed ==
    ((\A k \in Stages : Returned(k)) /\ pc \in {"export", "footer", "idle", "crashed"})
        => full_report = Str(ReportWithEmptyForFailed)

(***************************************************************************)
(* C2, as stated: when stage k's call returns a non-200 status, the error  *)
(* with the raw body is shown and, by the end of the run, the call of      *)
(* every later stage has been issued.                                      *)
(***************************************************************************)
ErrorShownFor(k) ==
    \E i \in 1..Len(ui) : /\ ui[i].el = "error"
                          /\ Contains(ui[i].value.text, responses[k].text)

CallRaisedAt(s) ==
    /\ pc = "crashed"
    /\ exception \in {"ConnectionError", "LookupError"}
    /\ step = s

C3_PipelineGated ==
    /\ (posts # <<>> \/ pc \in {"load", "stage", "await", "assemble", "export"})
          => (api_key # "" /\ uploaded_file # NoFile /\ clicked)
    /\ ((api_key = "" \/ uploaded_file = NoFile) /\ pc # "gate")
          => /\ Shown("warning")
             /\ posts = <<>>
             /\ pending = 0
             /\ \A k \in Stages : EntriesOf(k) = {} /\ ~Returned(k)

\* a finished run with a file uploaded and no credential
C3_Witness ==
    pc = "idle" /\ api_key = "" /\ uploaded_file # NoFile /\ Shown("warning")

(***************************************************************************)
(* C4, as stated: for every stage N in 2..5 the prompt sent by stage N     *)
(* contains the result text of stage N-1.                                  *)
(***************************************************************************)
C4_EveryPromptEmbedsPrevious ==
    \A N \in 2..5 :
        (N <= Len(posts) /\ results[ResultVar[N - 1]].kind = "str")
            => Contains(posts[N].prompt, results[ResultVar[N - 1]].text)

(***************************************************************************)
(* C4, amended: for N in {2, 4} the prompt sent by stage N contains the    *)
(* full result text of stage N-1 between the fixed instruction texts, when *)
(* stage N-1 returned a text; the prompts of stages 3 and 5 are fixed      *)
(* texts that embed no result.                                             *)
(***************************************************************************)
C4_Prompts2And4EmbedPrevious ==
    /\ \A N \in {2, 4} :
          (N <= Len(posts) /\ results[ResultVar[N - 1]].kind = "str")
              => \E i \in 1..Len(posts[N].prompt) :
                    /\ SubSeq(posts[N].prompt, i, i) = "\n"
                    /\ SubSeq(posts[N].prompt, i + 1,
                              i + Len(results[ResultVar[N - 1]].text) + 1)
                         = results[ResultVar[N - 1]].text \o "\n"
                    /\ i = Len(IF N = 2 THEN "Given this data profile:\n"
                                        ELSE "Given the data and metrics:\n")
    /\ Len(posts) >= 3 => posts[3].prompt = metrics_prompt
    /\ Len(posts) >= 5 => posts[5].prompt = insights_prompt

\* stage 4's prompt went out after stages 2 and 3 returned different texts
C4_Witness ==
    /\ Len(posts) >= 4
    /\ results.cleaning_result.kind = "str"
    /\ results.metrics_result.kind = "str"
    /\ results.metrics_result # results.cleaning_result

(***************************************************************************)
(* C5: within a run the calls go out in the order of the stages, the call  *)
(* of stage k+1 only after the call of stage k has returned, at most one   *)
(* call is outstanding at any time, and no stage is entered twice.         *)
(***************************************************************************)
C5_StrictlySequential ==
    /\ pending <= 1
    /\ pending = Len(posts) - Len(responses) - (IF exception = "ConnectionError" THEN 1 ELSE 0)
    /\ \A i \in 1..Len(posts) :
          /\ posts[i].prompt = Prompt(i, df, results)
          /\ i > 1 => Returned(i - 1)
    /\ \A k \in Stages : Cardinality(EntriesOf(k)) <= 1

\* the fifth call is outstanding
C5_Witness == Len(posts) = 5 /\ pc = "await" /\ pending = 1

(***************************************************************************)
(* C6: when a stage's call is answered with status 200, the stage's result *)
(* is exactly the text of the first part of the first candidate: that text *)
(* is shown under the stage's heading, is what the next prompt embeds      *)
(* (stages 1 and 3) and is what the report holds for the stage.            *)
(***************************************************************************)
C6_ResultIsFirstCandidateFirstPart ==
    \A k \in Stages :
        (Returned(k) /\ k <= Len(responses) /\ responses[k].status_code = 200)
        => LET t == responses[k].candidates[1][1]
           IN /\ results[ResultVar[k]] = Str(t)
              /\ \E i \in 1..(Len(ui) - 1) : /\ ui[i] = El("markdown", Str(Heading[k]))
                                             /\ ui[i + 1] = El("write", Str(t))
              /\ (k \in {1, 3} /\ Len(posts) > k) => Contains(posts[k + 1].prompt, t)
              /\ full_report.kind = "str"
                    => Contains(full_report.text, SectionLabel[k] \o t \o "\n\n")

\* a stage got a payload with two candidates and produced a result
C6_Witness ==
    \E k \in 1..Len(responses) :
        /\ Len(responses[k].candidates) = 2
        /\ Returned(k)
        /\ full_report.kind = "str"

(***************************************************************************)
(* C7: a run issues at most five POSTs: one for every stage it enters,     *)
(* none twice, whether the call succeeded or failed.                       *)
(***************************************************************************)
C7_OnePostPerStage ==
    /\ Len(posts) <= 5
    /\ \A k \in Stages :
          /\ Cardinality(CallsOf(k)) <= 1
          /\ Cardinality(CallsOf(k)) = Cardinality(EntriesOf(k))
          /\ Failed(k) => Len(posts) - k = Cardinality({j \in Stages : j > k /\ EntriesOf(j) # {}})

\* a run that is over, in which a call failed and five calls were issued
C7_Witness == RunOver /\ Len(posts) = 5 /\ \E k \in Stages : Failed(k)

(***************************************************************************)
(* C8: when the uploaded file cannot be loaded into a table, the run ends  *)
(* with the loader's uncaught exception: no stage is entered, no call is   *)
(* issued, and there is no report and no download.                         *)
(***************************************************************************)
C8_LoadFailureEndsRun ==
    (clicked /\ api_key # "" /\ uploaded_file.format = "corrupt" /\ pc \notin {"gate", "load"})
        => /\ pc = "crashed"
           /\ exception = "ParserError"
           /\ posts = <<>>
           /\ \A k \in Stages : EntriesOf(k) = {} /\ ~Returned(k)
           /\ full_report = Unbound
           /\ pdf_buffer = <<>>
           /\ ~Shown("download_button")
           /\ ~Shown("text")

\* a triggered run died loading the file
C8_Witness == clicked /\ pc = "crashed" /\ exception = "ParserError"

(***************************************************************************)
(* C9: when the call of stage 1 (stage 3) returned None, the prompt of     *)
(* stage 2 (stage 4) is still built and sent, with the text "None" where   *)
(* the result would have been; a stage that returned None is always        *)
(* followed by the next stage.                                             *)
(***************************************************************************)
C9_PlaceholderEmbeddedAfterFailure ==
    /\ (results.profile_result = None /\ Len(posts) >= 2)
          => posts[2].prompt = "Given this data profile:\nNone\nSuggest cleaning steps and apply them. Return python code for cleaning and a summary of changes."
    /\ (results.metrics_result = None /\ Len(posts) >= 4)
          => posts[4].prompt = "Given the data and metrics:\nNone\nPerform exploratory data analysis and highlight hidden patterns, outliers, or unusual trends."
    /\ \A k \in 1..4 :
          results[ResultVar[k]] = None
              => (pc = "stage" /\ step = k + 1) \/ Len(posts) >= k + 1

\* stages 1 and 3 both returned None and stage 4's call went out
C9_Witness ==
    /\ results.profile_result = None
    /\ results.metrics_result = None
    /\ Len(posts) >= 4

(***************************************************************************)
(* C10: the download button and the report panel are on the page only in   *)
(* a run whose five stage results are all texts.                           *)
(***************************************************************************)
C10_DownloadOnlyWhenAllText ==
    (Shown("download_button") \/ Shown("expander") \/ Shown("text") \/ pdf_buffer # <<>>)
        => \A k \in Stages : results[ResultVar[k]].kind = "str"

\* the download is on the page
C10_Witness == Shown("download_button") /\ pc = "idle"
====
